---- MODULE Spec2Model ----
(***************************************************************************)
(* HTML-snapshot capture with bounded history (BasePage.save_html_snapshot *)
(* and BasePage._cleanup_history of src/framework/base_page.py).           *)
(*                                                                         *)
(* The file system is the state: the snapshot directory, its history       *)
(* subdirectory, one live file per page and the timestamped history files. *)
(* A capture is a sequence of blocking file operations; every operation is *)
(* one step of the model, so that an I/O failure or an interruption can    *)
(* fall between any two of them.                                           *)
(*                                                                         *)
(* The rest of the repository follows, each module with a specification of *)
(* its own over its own variables: ConfigManager (SpecConfig),             *)
(* DriverManager.get_driver (SpecDriver), calculator.add (SpecCalc),       *)
(* BasePage.enter_text (SpecText) and setup_logger (SpecLogger). SpecConc  *)
(* is the snapshot store with two callers.                                 *)
(***************************************************************************)
EXTENDS Integers, Sequences, FiniteSets, TLC

\* ---------------------------------------------------------------- bounds
MaxCalls == 3        \* capture calls in one run
MaxTime == 2         \* last second of the clock
MaxFaults == 1       \* I/O failures and interruptions in one run
MaxTouches == 1      \* external changes of a history file's mtime in one run
MaxKeep == 2         \* largest keep_history passed by a caller

\* ---------------------------------------------------------------- names
\* A page name is its class name, cut at the underscores into segments:
\* "Page" is <<"Page">>, "Page_A" is <<"Page", "A">>.
Page == <<"Page">>
Page_A == <<"Page", "A">>
Subjects == {Page, Page_A}

\* The callers of save_html_snapshot. A test session is one process: the
\* sequential specification runs process p1 alone.
Procs == {"p1", "p2"}
Main == "p1"

NoFile == -1         \* the file does not exist
Truncated == 0       \* the file was opened for writing and the write failed

IsPrefix(s, t) == Len(s) <= Len(t) /\ SubSeq(t, 1, Len(s)) = s

\* datetime.now().strftime("%Y%m%d_%H%M%S"): the clock counts whole seconds,
\* and the text of a second is a different text for every second.
Timestamp(t) == t

\* history_dir / f"{page_name}_{timestamp}.html"
HistoryPath(page_name, timestamp) == [name |-> page_name, ts |-> timestamp]

PathOf(f) == [name |-> f.name, ts |-> f.ts]

GlobMatch_ProperPrefix(page_name, path) ==
    IsPrefix(page_name, path.name) /\ Len(page_name) < Len(path.name)

\* history_dir.glob(f"{page_name}_*.html"): a file named
\* {name}_{YYYYMMDD_HHMMSS}.html matches when its text starts with
\* "{page_name}_", which is when page_name's segments start name's segments.
GlobMatch(page_name, path) == IsPrefix(page_name, path.name)

VARIABLES
    snapDir,      \* the snapshot directory exists
    histDir,      \* its history subdirectory exists
    live,         \* live[S]: content of {S}.html, or NoFile
    hist,         \* the history files: records [name, ts, content, mtime]
    now,          \* the clock, in seconds (a file's mtime is the clock at its write)
    pc,           \* pc[p]: where process p is in save_html_snapshot
    frame,        \* frame[p]: the locals of p's call
    log,          \* one record per capture call, in call order
    faults,       \* failures and interruptions so far
    touches       \* external mtime changes so far

vars == <<snapDir, histDir, live, hist, now, pc, frame, log, faults, touches>>

\* ------------------------------------------- the rest of the repository
\* The other modules have state of their own; a capture leaves it alone.
VARIABLES
    cmInstance,   \* ConfigManager._instance
    cmConfig,     \* ConfigManager._config: what load_config stored
    configFile,   \* the content of config.yaml
    cmLog,        \* one record per ConfigManager() construction, in order
    edits,        \* changes of config.yaml so far
    got,          \* the last ConfigManager.get call and its result
    gd,           \* the last DriverManager.get_driver call and its result
    calc,         \* the last calculator.add call and its result
    et,           \* two runs of BasePage.enter_text, side by side
    loggers,      \* loggers[name]: handlers and propagate of that logger
    setups        \* setup_logger calls so far

cmVars == <<cmInstance, cmConfig, configFile, cmLog, edits, got>>
lgVars == <<loggers, setups>>
framework == <<cmVars, gd, calc, et, lgVars>>

\* A Python value as yaml.safe_load returns it: its type, and for a dict
\* its items (a function from keys to values).
Value(type) == [type |-> type, items |-> <<>>]
PyNone == Value("NoneType")
NoConfigFile == Value("missing")

\* The names setup_logger is called with.
LoggerNames == {"framework", "tests"}

\* Before anything is called: no ConfigManager instance, config.yaml not
\* written yet, no driver, and of framework.logger only its import, which
\* runs setup_logger('framework', level=logging.INFO) (logger.py line 138).
FrameworkInit ==
    /\ cmInstance = "None"
    /\ cmConfig = PyNone
    /\ configFile = NoConfigFile
    /\ cmLog = <<>>
    /\ edits = 0
    /\ got = [called |-> FALSE, key_path |-> <<>>, default |-> PyNone,
              config |-> PyNone, raised |-> "none", value |-> PyNone]
    /\ gd = [called |-> FALSE, name |-> <<>>, creation |-> "ok", created |-> "none",
             driver |-> "none", out |-> "none", logs |-> <<>>]
    /\ calc = [called |-> FALSE, a |-> 0, b |-> 0, result |-> 0]
    /\ et = [r \in {1, 2} |-> [called |-> FALSE, locator |-> [by |-> "id", value |-> <<>>],
                               text |-> "", logs |-> <<>>, keys |-> "", out |-> "none"]]
    /\ loggers = [n \in LoggerNames |->
                    IF n = "framework"
                    THEN [level |-> "INFO",
                          handlers |-> <<[kind |-> "console", file |-> "", level |-> "INFO",
                                          call |-> 1]>>,
                          propagate |-> FALSE,
                          last |-> [call |-> 1, console_output |-> TRUE,
                                    log_file |-> "None", returned |-> TRUE]]
                    ELSE [level |-> "NOTSET", handlers |-> <<>>, propagate |-> TRUE,
                          last |-> [call |-> 0, console_output |-> FALSE,
                                    log_file |-> "None", returned |-> FALSE]]]
    /\ setups = 1

Running == {"mkdir", "read", "write_live", "mkdir_hist", "write_hist", "list", "unlink"}
Returned == {"idle", "done", "raised", "crashed"}

NoFrame == [page_name |-> <<>>, keep_history |-> 0, timestamp |-> 0,
            html_content |-> NoFile, history_files |-> <<>>, call |-> 0]

Init ==
    /\ snapDir = FALSE
    /\ histDir = FALSE
    /\ live = [S \in Subjects |-> NoFile]
    /\ hist = {}
    /\ now = 0
    /\ pc = [p \in Procs |-> "idle"]
    /\ frame = [p \in Procs |-> NoFrame]
    /\ log = <<>>
    /\ faults = 0
    /\ touches = 0
    /\ FrameworkInit

\* ------------------------------------------------------ the call's record
\* log[k] describes the k-th capture call: what it was asked and how far it
\* got. The page source the driver returns to the k-th call is the content k.
NewCall(S, N, k) ==
    [subj |-> S, keep |-> N, content |-> k, ts |-> -1, out |-> "running",
     failedAt |-> "none", logged |-> "none", wroteLive |-> FALSE,
     wroteHist |-> FALSE, mtime |-> -1, listed |-> {}, deleted |-> {}]

Cur(p) == frame[p].call

\* The locals of a call that has ended: only which call it was remains.
Ended(p) == [NoFrame EXCEPT !.call = frame[p].call]

\* The handlers. os.makedirs(snapshot_dir) stands before the try block, so
\* its error reaches the caller; the body of the try block ends in the
\* except clause of save_html_snapshot, the body of _cleanup_history in its
\* own except clause, and both return normally.
OnMakedirsError == "raised"
OnSaveError_Reraise == "raised"
OnSaveError == "done"
OnCleanupError_Propagates == "raised"
OnCleanupError == "done"

StepAfter_HistoryFirst(step) ==
    CASE step = "read" -> "mkdir_hist"
      [] step = "mkdir_hist" -> "write_hist"
      [] step = "write_hist" -> "write_live"
      [] step = "write_live" -> "list"

StepAfter_SkipsHistoryWrite(step) ==
    CASE step = "read" -> "write_live"
      [] step = "write_live" -> "mkdir_hist"
      [] step = "mkdir_hist" -> "list"
      [] step = "write_hist" -> "list"

\* The order of the steps inside the try block of save_html_snapshot.
StepAfter(step) ==
    CASE step = "read" -> "write_live"
      [] step = "write_live" -> "mkdir_hist"
      [] step = "mkdir_hist" -> "write_hist"
      [] step = "write_hist" -> "list"

CanFail == faults < MaxFaults

\* A step of p fails: the handler decides where p goes and what it logs
\* (logger.error in save_html_snapshot, logger.warning in _cleanup_history).
Failed(p, step, handler, logs) ==
    /\ CanFail
    /\ faults' = faults + 1
    /\ pc' = [pc EXCEPT ![p] = handler]
    /\ frame' = [frame EXCEPT ![p] = Ended(p)]
    /\ log' = [log EXCEPT ![Cur(p)].out = handler, ![Cur(p)].failedAt = step,
                          ![Cur(p)].logged = IF handler = "done" THEN logs ELSE "none"]
    /\ UNCHANGED <<now, touches>>
    /\ UNCHANGED framework

\* save_html_snapshot(keep_history): lines 52-53
Call(p, S, N) ==
    /\ pc[p] \in Returned
    /\ Len(log) < MaxCalls
    /\ pc' = [pc EXCEPT ![p] = "mkdir"]
    /\ frame' = [frame EXCEPT ![p] = [NoFrame EXCEPT !.page_name = S,
                                       !.keep_history = N, !.call = Len(log) + 1]]
    /\ log' = Append(log, NewCall(S, N, Len(log) + 1))
    /\ UNCHANGED <<snapDir, histDir, live, hist, now, faults, touches>>
    /\ UNCHANGED framework

\* lines 55-61: create the snapshot directory, take the timestamp
MakeSnapshotDir(p) ==
    /\ pc[p] = "mkdir"
    /\ snapDir' = TRUE
    /\ pc' = [pc EXCEPT ![p] = "read"]
    /\ frame' = [frame EXCEPT ![p].timestamp = Timestamp(now)]
    /\ log' = [log EXCEPT ![Cur(p)].ts = Timestamp(now)]
    /\ UNCHANGED <<histDir, live, hist, now, faults, touches>>
    /\ UNCHANGED framework

\* line 56 raising OSError (the directory is missing and cannot be made)
MakeSnapshotDirFails(p) ==
    /\ pc[p] = "mkdir"
    /\ ~snapDir
    /\ Failed(p, "mkdir", OnMakedirsError, "none")
    /\ UNCHANGED <<snapDir, histDir, live, hist>>

\* line 65: html_content = self.driver.page_source
ReadPageSource(p) ==
    /\ pc[p] = "read"
    /\ pc' = [pc EXCEPT ![p] = StepAfter("read")]
    /\ frame' = [frame EXCEPT ![p].html_content = log[Cur(p)].content]
    /\ UNCHANGED <<snapDir, histDir, live, hist, now, log, faults, touches>>
    /\ UNCHANGED framework

\* line 65 raising (the driver lost its session)
ReadPageSourceFails(p) ==
    /\ pc[p] = "read"
    /\ Failed(p, "read", OnSaveError, "error")
    /\ UNCHANGED <<snapDir, histDir, live, hist>>

LiveWritten_OneFileForAll(l, page_name, content) == [S \in DOMAIN l |-> content]

\* open(filepath, 'w') and f.write(html_content) on the live file
LiveWritten(l, page_name, content) == [l EXCEPT ![page_name] = content]

\* lines 69-70
WriteLive(p) ==
    /\ pc[p] = "write_live"
    /\ live' = LiveWritten(live, frame[p].page_name, frame[p].html_content)
    /\ pc' = [pc EXCEPT ![p] = StepAfter("write_live")]
    /\ log' = [log EXCEPT ![Cur(p)].wroteLive = TRUE]
    /\ UNCHANGED <<snapDir, histDir, hist, now, frame, faults, touches>>
    /\ UNCHANGED framework

\* lines 69-70 raising: open fails and the file is as it was, or open has
\* emptied the file and the write fails.
WriteLiveFails(p) ==
    /\ pc[p] = "write_live"
    /\ Failed(p, "write_live", OnSaveError, "error")
    /\ \/ live' = live
       \/ live' = LiveWritten(live, frame[p].page_name, Truncated)
    /\ UNCHANGED <<snapDir, histDir, hist>>

\* lines 74-75
MakeHistoryDir(p) ==
    /\ pc[p] = "mkdir_hist"
    /\ histDir' = TRUE
    /\ pc' = [pc EXCEPT ![p] = StepAfter("mkdir_hist")]
    /\ UNCHANGED <<snapDir, live, hist, now, frame, log, faults, touches>>
    /\ UNCHANGED framework

\* line 75 raising OSError, inside the try block
MakeHistoryDirFails(p) ==
    /\ pc[p] = "mkdir_hist"
    /\ ~histDir
    /\ Failed(p, "mkdir_hist", OnSaveError, "error")
    /\ UNCHANGED <<snapDir, histDir, live, hist>>

HistoryWritten_AloneInHistory(h, path, content, t) ==
    {[name |-> path.name, ts |-> path.ts, content |-> content, mtime |-> t]}

HistoryWritten_KeepsOld(h, path, content, t) ==
    h \cup {[name |-> path.name, ts |-> path.ts, content |-> content, mtime |-> t]}

\* open(history_filepath, 'w') and f.write: the file of that name is
\* replaced, and its modification time is the time of the write.
HistoryWritten(h, path, content, t) ==
    {f \in h : PathOf(f) # path}
        \cup {[name |-> path.name, ts |-> path.ts, content |-> content, mtime |-> t]}

\* lines 76-79
WriteHistory(p) ==
    /\ pc[p] = "write_hist"
    /\ hist' = HistoryWritten(hist, HistoryPath(frame[p].page_name, frame[p].timestamp),
                              frame[p].html_content, now)
    /\ pc' = [pc EXCEPT ![p] = StepAfter("write_hist")]
    /\ log' = [log EXCEPT ![Cur(p)].wroteHist = TRUE, ![Cur(p)].mtime = now]
    /\ UNCHANGED <<snapDir, histDir, live, now, frame, faults, touches>>
    /\ UNCHANGED framework

\* lines 78-79 raising
WriteHistoryFails(p) ==
    /\ pc[p] = "write_hist"
    /\ Failed(p, "write_hist", OnSaveError, "error")
    /\ \/ hist' = hist
       \/ hist' = HistoryWritten(hist, HistoryPath(frame[p].page_name, frame[p].timestamp),
                                 Truncated, now)
    /\ UNCHANGED <<snapDir, histDir, live>>

\* ------------------------------------------------------- _cleanup_history
SortKey_ByName(f) == f.ts

\* key=lambda p: p.stat().st_mtime
SortKey(f) == f.mtime

InOrder_Ascending(a, b) == SortKey(a) <= SortKey(b)

\* reverse=True: the most recently modified file comes first
InOrder(a, b) == SortKey(a) >= SortKey(b)

Sorted_AsGlobbed(F) ==
    {s \in [1..Cardinality(F) -> F] :
        \A i, j \in 1..Cardinality(F) : i # j => s[i] # s[j]}

\* sorted(...): the orders sorted() can return for the files F. Files with
\* equal keys stay in the order glob() yielded them, which is any order.
Sorted(F) ==
    {s \in [1..Cardinality(F) -> F] :
        /\ \A i, j \in 1..Cardinality(F) : i # j => s[i] # s[j]
        /\ \A i, j \in 1..Cardinality(F) : i < j => InOrder(s[i], s[j])}

KeepSlice_OneFewer(files, keep_count) ==
    SubSeq(files, IF keep_count = 0 THEN 1 ELSE keep_count, Len(files))

KeepSlice_OneMore(files, keep_count) == SubSeq(files, keep_count + 2, Len(files))

KeepSlice_NothingForZero(files, keep_count) ==
    IF keep_count = 0 THEN <<>> ELSE SubSeq(files, keep_count + 1, Len(files))

\* history_files[keep_count:]
KeepSlice(files, keep_count) == SubSeq(files, keep_count + 1, Len(files))

Paths(files) == [i \in 1..Len(files) |-> PathOf(files[i])]

\* lines 99-107 with nothing to delete, then lines 111-112 and the return
\* of both functions; or the first round of the loop is reached.
ListHistory(p) ==
    /\ pc[p] = "list"
    /\ LET listed == {f \in hist : GlobMatch(frame[p].page_name, PathOf(f))}
       IN \E s \in Sorted(listed) :
            LET old == Paths(KeepSlice(s, frame[p].keep_history))
            IN /\ frame' = [frame EXCEPT ![p] = IF old = <<>> THEN Ended(p)
                                                ELSE [@ EXCEPT !.history_files = old]]
               /\ pc' = [pc EXCEPT ![p] = IF old = <<>> THEN "done" ELSE "unlink"]
               /\ log' = [log EXCEPT ![Cur(p)].listed = listed,
                                     ![Cur(p)].out = IF old = <<>> THEN "done" ELSE @]
    /\ UNCHANGED <<snapDir, histDir, live, hist, now, faults, touches>>
    /\ UNCHANGED framework

\* glob() or stat() raising inside _cleanup_history
ListHistoryFails(p) ==
    /\ pc[p] = "list"
    /\ Failed(p, "list", OnCleanupError, "warning")
    /\ UNCHANGED <<snapDir, histDir, live, hist>>

\* lines 107-109: one round of the loop; after the last round both
\* functions return.
Unlink(p) ==
    /\ pc[p] = "unlink"
    /\ LET old_file == Head(frame[p].history_files)
           rest == Tail(frame[p].history_files)
       IN /\ \E f \in hist : PathOf(f) = old_file
          /\ hist' = {f \in hist : PathOf(f) # old_file}
          /\ frame' = [frame EXCEPT ![p] = IF rest = <<>> THEN Ended(p)
                                           ELSE [@ EXCEPT !.history_files = rest]]
          /\ pc' = [pc EXCEPT ![p] = IF rest = <<>> THEN "done" ELSE "unlink"]
          /\ log' = [log EXCEPT ![Cur(p)].deleted = @ \cup {old_file},
                                ![Cur(p)].out = IF rest = <<>> THEN "done" ELSE @]
    /\ UNCHANGED <<snapDir, histDir, live, now, faults, touches>>
    /\ UNCHANGED framework

\* old_file.unlink() raising: the loop is left, the remaining files stay
UnlinkFails(p) ==
    /\ pc[p] = "unlink"
    /\ Failed(p, "unlink", OnCleanupError, "warning")
    /\ UNCHANGED <<snapDir, histDir, live, hist>>

\* ------------------------------------------------------------ environment
\* The process is interrupted between two steps of a capture.
Crash(p) ==
    /\ pc[p] \in Running
    /\ CanFail
    /\ faults' = faults + 1
    /\ pc' = [pc EXCEPT ![p] = "crashed"]
    /\ log' = [log EXCEPT ![Cur(p)].out = "crashed"]
    /\ frame' = [frame EXCEPT ![p] = Ended(p)]
    /\ UNCHANGED <<snapDir, histDir, live, hist, now, touches>>
    /\ UNCHANGED framework

\* Time passes. A capture reads the clock twice, for the timestamp and when
\* it writes the history file, so the clock moves between captures and on
\* the way to that write. The clock is at 0 when the first capture starts.
Tick ==
    /\ now < MaxTime
    /\ log # <<>>
    /\ \A p \in Procs : pc[p] \in Returned \cup {"write_hist"}
    /\ now' = now + 1
    /\ UNCHANGED <<snapDir, histDir, live, hist, pc, frame, log, faults, touches>>
    /\ UNCHANGED framework

\* Somebody sets the modification time of a history file (touch, copy)
\* while no capture is running.
Touch(f, m) ==
    /\ \A p \in Procs : pc[p] \in Returned
    /\ touches < MaxTouches
    /\ f \in hist
    /\ m # f.mtime
    /\ hist' = (hist \ {f}) \cup {[f EXCEPT !.mtime = m]}
    /\ touches' = touches + 1
    /\ UNCHANGED <<snapDir, histDir, live, now, pc, frame, log, faults>>
    /\ UNCHANGED framework

Step(p) ==
    \/ \E S \in Subjects, N \in 0..MaxKeep : Call(p, S, N)
    \/ MakeSnapshotDir(p)
    \/ MakeSnapshotDirFails(p)
    \/ ReadPageSource(p)
    \/ ReadPageSourceFails(p)
    \/ WriteLive(p)
    \/ WriteLiveFails(p)
    \/ MakeHistoryDir(p)
    \/ MakeHistoryDirFails(p)
    \/ WriteHistory(p)
    \/ WriteHistoryFails(p)
    \/ ListHistory(p)
    \/ ListHistoryFails(p)
    \/ Unlink(p)
    \/ UnlinkFails(p)
    \/ Crash(p)

Next ==
    \/ Step(Main)
    \/ Tick
    \/ \E f \in hist, m \in 0..MaxTime : Touch(f, m)

Spec == Init /\ [][Next]_vars

\* ------------------------------------------------------ concurrent callers
\* Test processes that share one snapshot directory: nothing locks it, so
\* the file operations of two captures interleave. For one caller the
\* listing of lines 99-103 is one step (ListHistory); with a second caller
\* its parts are steps of their own: glob() reads the directory, then
\* sorted() calls stat() on every path glob() returned, and a path that the
\* other caller has unlinked in between raises FileNotFoundError.

\* The paths glob() yields, in one order (sorted() decides the final order).
Listing(F) ==
    CHOOSE s \in [1..Cardinality(F) -> F] :
        \A i, j \in 1..Cardinality(F) : i # j => s[i] # s[j]

Exists(path) == \E f \in hist : PathOf(f) = path

Globbed(p) == {frame[p].history_files[i] : i \in 1..Len(frame[p].history_files)}

\* line 100: history_dir.glob(f"{page_name}_*.html")
Glob(p) ==
    /\ pc[p] = "list"
    /\ LET listed == {f \in hist : GlobMatch(frame[p].page_name, PathOf(f))}
       IN /\ frame' = [frame EXCEPT ![p].history_files = Paths(Listing(listed))]
          /\ log' = [log EXCEPT ![Cur(p)].listed = listed]
    /\ pc' = [pc EXCEPT ![p] = "sort"]
    /\ UNCHANGED <<snapDir, histDir, live, hist, now, faults, touches>>
    /\ UNCHANGED framework

\* lines 99-107: sorted() over the globbed paths, every one of which still
\* exists, and the slice; with nothing to delete both functions return.
SortListed(p) ==
    /\ pc[p] = "sort"
    /\ \A path \in Globbed(p) : Exists(path)
    /\ \E s \in Sorted({f \in hist : PathOf(f) \in Globbed(p)}) :
         LET old == Paths(KeepSlice(s, frame[p].keep_history))
         IN /\ frame' = [frame EXCEPT ![p] = IF old = <<>> THEN Ended(p)
                                             ELSE [@ EXCEPT !.history_files = old]]
            /\ pc' = [pc EXCEPT ![p] = IF old = <<>> THEN "done" ELSE "unlink"]
            /\ log' = [log EXCEPT ![Cur(p)].out = IF old = <<>> THEN "done" ELSE @]
    /\ UNCHANGED <<snapDir, histDir, live, hist, now, faults, touches>>
    /\ UNCHANGED framework

\* p's operation finds the file gone: FileNotFoundError, caught at lines
\* 114-115, a warning is logged and both functions return.
FileIsGone(p, step) ==
    /\ pc' = [pc EXCEPT ![p] = OnCleanupError]
    /\ frame' = [frame EXCEPT ![p] = Ended(p)]
    /\ log' = [log EXCEPT ![Cur(p)].out = OnCleanupError, ![Cur(p)].failedAt = step,
                          ![Cur(p)].logged = "warning"]
    /\ UNCHANGED <<snapDir, histDir, live, hist, now, faults, touches>>
    /\ UNCHANGED framework

\* line 102: p.stat() on a path that was unlinked after glob() returned it
StatMissing(p) ==
    /\ pc[p] = "sort"
    /\ \E path \in Globbed(p) : ~Exists(path)
    /\ FileIsGone(p, "stat")

\* line 108: old_file.unlink() on a path the other caller has unlinked
UnlinkMissing(p) ==
    /\ pc[p] = "unlink"
    /\ ~Exists(Head(frame[p].history_files))
    /\ FileIsGone(p, "unlink")

\* One step of caller p. Both callers capture the same page.
Concurrently(p) ==
    \/ \E N \in 0..MaxKeep : Call(p, Page, N)
    \/ MakeSnapshotDir(p)
    \/ ReadPageSource(p)
    \/ WriteLive(p)
    \/ MakeHistoryDir(p)
    \/ WriteHistory(p)
    \/ Glob(p)
    \/ SortListed(p)
    \/ StatMissing(p)
    \/ Unlink(p)
    \/ UnlinkMissing(p)

NextConc ==
    \/ \E p \in Procs : Concurrently(p)
    \/ Tick

SpecConc == Init /\ [][NextConc]_vars

\* ============================================================ calculator
\* src/calculator/calculator.py. Python integers have no width: a + b is
\* the sum, whatever its size.
MaxOperand == 6      \* operands of add range over -MaxOperand..MaxOperand
Operands == (0 - MaxOperand)..MaxOperand

add_Wrapped(a, b) == ((a + b + 8) % 16) - 8

\* line 18: return a + b
add(a, b) == a + b

\* result = add(x, y)
Add(x, y) ==
    /\ calc' = [called |-> TRUE, a |-> x, b |-> y, result |-> add(x, y)]
    /\ UNCHANGED <<vars, cmVars, gd, et, lgVars>>

NextCalc == \E x, y \in Operands : Add(x, y)

SpecCalc == Init /\ [][NextCalc]_<<vars, framework>>

\* ========================================================= ConfigManager
\* src/framework/config_manager.py. A str is the sequence of its characters.
MaxPathLen == 3          \* longest key_path passed to get
MaxEdits == 1            \* changes of config.yaml in one run
MaxConstructions == 2    \* ConfigManager() constructions in one run

Dict(items) == [type |-> "dict", items |-> items]

\* The configurations config.yaml can hold: a scalar, null (an empty file),
\* a list, or a mapping with keys "a" and "b", "a" possibly a mapping again.
Leaves == {PyNone, Value("int"), Value("str"), Value("list")}
Inner == {Dict(f) : f \in UNION {[D -> Leaves] : D \in SUBSET {<<"b">>}}}
Configs ==
    Leaves \cup
    {Dict(f) : f \in UNION {{g \in [D -> Leaves \cup Inner] :
                                <<"b">> \in D => g[<<"b">>] \in Leaves} :
                            D \in SUBSET {<<"a">>, <<"b">>}}}

KeyPaths == UNION {[1..n -> {"a", "b", "."}] : n \in 0..MaxPathLen}
Defaults == {PyNone, Value("default")}

\* key_path.split('.'): the pieces between the separators; a text without
\* separator is one piece, the empty text too.
RECURSIVE split(_, _)
split(text, sep) ==
    IF \E i \in 1..Len(text) : text[i] = sep
    THEN LET i == CHOOSE k \in 1..Len(text) :
                    text[k] = sep /\ \A m \in 1..(k - 1) : text[m] # sep
         IN <<SubSeq(text, 1, i - 1)>> \o split(SubSeq(text, i + 1, Len(text)), sep)
    ELSE <<text>>

\* value[key] for a str key: the item of a dict, KeyError when the dict has
\* no such key, TypeError for None, a scalar, a str or a list.
Index(value, key) ==
    IF value.type = "dict"
    THEN IF key \in DOMAIN value.items
         THEN [raised |-> "none", value |-> value.items[key]]
         ELSE [raised |-> "KeyError", value |-> PyNone]
    ELSE [raised |-> "TypeError", value |-> PyNone]

\* lines 57-62: value = self._config; for key in keys: value = value[key]
RECURSIVE Walk(_, _)
Walk(value, keys) ==
    IF keys = <<>>
    THEN [raised |-> "none", value |-> value]
    ELSE LET r == Index(value, Head(keys))
         IN IF r.raised # "none" THEN r ELSE Walk(r.value, Tail(keys))

Caught_KeyErrorOnly == {"KeyError"}

\* line 63: except (KeyError, TypeError)
Caught == {"KeyError", "TypeError"}

\* lines 56-64
get(config, key_path, default) ==
    LET r == Walk(config, split(key_path, "."))
    IN IF r.raised \in Caught THEN [raised |-> "none", value |-> default] ELSE r

\* config.get(key_path, default) on the instance
Get(key_path, default) ==
    /\ cmInstance # "None"
    /\ got' = [called |-> TRUE, key_path |-> key_path, default |-> default,
               config |-> cmConfig] @@ get(cmConfig, key_path, default)
    /\ UNCHANGED <<vars, cmInstance, cmConfig, configFile, cmLog, edits, gd, calc, et, lgVars>>

\* lines 15-19: __new__ creates the instance when there is none
New == IF cmInstance = "None" THEN "cm" ELSE cmInstance

\* line 23: the guard of __init__ is "self._config is None"; the
\* configuration counts as loaded when _config holds anything else.
Loaded == cmConfig # PyNone

\* ConfigManager() when nothing is loaded and config.yaml can be read:
\* lines 15-24 and 33-39, _config = yaml.safe_load(file)
ConstructAndLoad ==
    /\ Len(cmLog) < MaxConstructions
    /\ ~Loaded
    /\ configFile # NoConfigFile
    /\ cmInstance' = New
    /\ cmConfig' = configFile
    /\ cmLog' = Append(cmLog, [returned |-> New, read |-> TRUE])
    /\ UNCHANGED <<vars, configFile, edits, got, gd, calc, et, lgVars>>

\* ConfigManager() when config.yaml is missing: open() raises at line 38,
\* after __new__ has stored the instance.
ConstructLoadFails ==
    /\ Len(cmLog) < MaxConstructions
    /\ ~Loaded
    /\ configFile = NoConfigFile
    /\ cmInstance' = New
    /\ cmLog' = Append(cmLog, [returned |-> "FileNotFoundError", read |-> FALSE])
    /\ UNCHANGED <<vars, cmConfig, configFile, edits, got, gd, calc, et, lgVars>>

\* ConfigManager() when a configuration is loaded: line 23 skips load_config
ConstructLoaded ==
    /\ Len(cmLog) < MaxConstructions
    /\ Loaded
    /\ cmInstance' = New
    /\ cmLog' = Append(cmLog, [returned |-> New, read |-> FALSE])
    /\ UNCHANGED <<vars, cmConfig, configFile, edits, got, gd, calc, et, lgVars>>

\* Somebody writes config.yaml.
WriteConfigFile(c) ==
    /\ edits < MaxEdits
    /\ c # configFile
    /\ configFile' = c
    /\ edits' = edits + 1
    /\ UNCHANGED <<vars, cmInstance, cmConfig, cmLog, got, gd, calc, et, lgVars>>

NextConfig ==
    \/ \E c \in Configs : WriteConfigFile(c)
    \/ ConstructAndLoad
    \/ ConstructLoadFails
    \/ ConstructLoaded
    \/ \E key_path \in KeyPaths, default \in Defaults : Get(key_path, default)

SpecConfig == Init /\ [][NextConfig]_<<vars, framework>>

\* ================================================================== text
\* A str is the sequence of its characters.
LowerCase == <<"a", "b", "c", "d", "e", "f", "g", "h", "i", "j", "k", "l", "m",
               "n", "o", "p", "q", "r", "s", "t", "u", "v", "w", "x", "y", "z">>
UpperCase == <<"A", "B", "C", "D", "E", "F", "G", "H", "I", "J", "K", "L", "M",
               "N", "O", "P", "Q", "R", "S", "T", "U", "V", "W", "X", "Y", "Z">>

Letter(alphabet, c) == CHOOSE i \in 1..Len(alphabet) : alphabet[i] = c
IsIn(alphabet, c) == \E i \in 1..Len(alphabet) : alphabet[i] = c

\* str.lower(): every upper-case letter becomes its lower-case letter and
\* every other character stays.
lower(text) ==
    [i \in 1..Len(text) |->
        IF IsIn(UpperCase, text[i]) THEN LowerCase[Letter(UpperCase, text[i])] ELSE text[i]]

\* The spellings of a lower-case word in upper and lower case.
CaseVariants(word) ==
    {[i \in 1..Len(word) |->
        IF i \in U /\ IsIn(LowerCase, word[i]) THEN UpperCase[Letter(LowerCase, word[i])]
        ELSE word[i]] : U \in SUBSET (1..Len(word))}

\* word in text
Contains(word, text) ==
    \E k \in 0..(Len(text) - Len(word)) : SubSeq(text, k + 1, k + Len(word)) = word

\* ========================================================= DriverManager
\* src/framework/driver_manager.py, get_driver.
chrome == <<"c", "h", "r", "o", "m", "e">>
firefox == <<"f", "i", "r", "e", "f", "o", "x">>

\* browser.name is not in the configuration: config.get returns its default
NotConfigured == <<"None">>

\* The names config.yaml can give the browser: chrome and firefox in every
\* spelling, and names get_driver does not know.
OtherNames ==
    {<<>>, <<"e", "d", "g", "e">>, <<"s", "a", "f", "a", "r", "i">>,
     <<"c", "h", "r", "o", "m", "e", " ">>, <<"c", "h", "r", "o", "m", "i", "u", "m">>,
     <<"C", "H", "R", "O", "M", "E", "2">>, <<"f", "i", "r", "e", "-", "f", "o", "x">>}
BrowserNames == CaseVariants(chrome) \cup CaseVariants(firefox) \cup OtherNames \cup {NotConfigured}

\* How creating the driver goes: it succeeds, or it raises before a browser
\* is started (the driver binary cannot be installed), or it raises after
\* (setting the timeouts on the new driver fails).
Creations == {"ok", "install fails", "timeouts fail"}

BrowserName_AsConfigured(configured) ==
    IF configured = NotConfigured THEN chrome ELSE configured

\* line 31: browser_name = config.get('browser.name', 'chrome').lower()
BrowserName(configured) ==
    lower(IF configured = NotConfigured THEN chrome ELSE configured)

\* lines 35-42: the branch taken
Selected(browser_name) ==
    IF browser_name = chrome THEN "Chrome"
    ELSE IF browser_name = firefox THEN "Firefox"
    ELSE "none"

\* lines 31-49: what a call creates, how it ends and what it logs
get_driver(configured, creation) ==
    LET browser_name == BrowserName(configured)
        kind == Selected(browser_name)
        raised == IF kind = "none" THEN "ValueError"
                  ELSE IF creation # "ok" THEN "WebDriverException"
                  ELSE "none"
    IN [created |-> IF kind # "none" /\ creation # "install fails" THEN kind ELSE "none",
        driver |-> IF raised = "none" THEN kind ELSE "none",
        out |-> IF raised = "none" THEN "returned" ELSE raised,
        logs |-> <<[level |-> "info", msg |-> "Creating WebDriver for browser"]>>
                 \o (IF kind = "none"
                     THEN <<[level |-> "error", msg |-> "Unsupported browser"]>> ELSE <<>>)
                 \o (IF raised = "none"
                     THEN <<[level |-> "info", msg |-> "Successfully created"]>>
                     ELSE <<[level |-> "error", msg |-> "Failed to create WebDriver"]>>)]

\* DriverManager.get_driver() with browser.name configured as given
GetDriver(configured, creation) ==
    /\ gd' = [called |-> TRUE, name |-> configured, creation |-> creation]
                @@ get_driver(configured, creation)
    /\ UNCHANGED <<vars, cmVars, calc, et, lgVars>>

\* The call returns a driver.
GetDriverReturns(configured) ==
    /\ Selected(BrowserName(configured)) # "none"
    /\ GetDriver(configured, "ok")

\* Creating the driver raises: lines 47-49
GetDriverCreationFails(configured, creation) ==
    /\ Selected(BrowserName(configured)) # "none"
    /\ creation # "ok"
    /\ GetDriver(configured, creation)

\* lines 39-42, then lines 47-49
GetDriverUnsupported(configured) ==
    /\ Selected(BrowserName(configured)) = "none"
    /\ GetDriver(configured, "ok")

NextDriver ==
    \/ \E configured \in BrowserNames : GetDriverReturns(configured)
    \/ \E configured \in BrowserNames, creation \in Creations :
            GetDriverCreationFails(configured, creation)
    \/ \E configured \in BrowserNames : GetDriverUnsupported(configured)

SpecDriver == Init /\ [][NextDriver]_<<vars, framework>>

\* ===================================================== BasePage.enter_text
\* src/framework/base_page.py lines 193-220. Two runs of the call stand
\* side by side: the same locator on the same page, each run its own text.
password == <<"p", "a", "s", "s", "w", "o", "r", "d">>
token == <<"t", "o", "k", "e", "n">>
secret == <<"s", "e", "c", "r", "e", "t">>

\* line 206: ['password', 'token', 'secret']
SensitiveWords == {password, token, secret}

Mask == "****"

\* Locator strings that hold one of the words, in any spelling, alone or
\* inside a longer string; and locator strings that hold none.
Affixes == {<<<<>>, <<>>>>, <<<<"u", "s", "e", "r", "-">>, <<>>>>, <<<<>>, <<"_", "1">>>>}
SensitiveLocators ==
    {affix[1] \o w \o affix[2] : affix \in Affixes,
                                  w \in UNION {CaseVariants(word) : word \in SensitiveWords}}
PlainLocators ==
    {<<"u", "s", "e", "r", "n", "a", "m", "e">>, <<"s", "e", "a", "r", "c", "h">>,
     <<"p", "a", "s", "s">>, <<"P", "W", "D">>, <<"t", "o", "k", " ", "e", "n">>,
     <<"s", "e", "c", "r", "e">>, <<>>}
Locators == [by : {"id"}, value : SensitiveLocators \cup PlainLocators]

\* The texts typed; none of them is the mask itself.
Texts == {"hunter2", "letmein"}

Sensitive_AsWritten(value) == \E word \in SensitiveWords : Contains(word, value)

\* line 206: any(word in locator[1].lower() for word in [...])
Sensitive(value) == \E word \in SensitiveWords : Contains(word, lower(value))

\* line 206: display_text
DisplayText(locator, text) == IF Sensitive(locator.value) THEN Mask ELSE text

\* lines 204-220: what a call logs, what it sends to the element and how
\* it ends, the element becoming visible in time or not. A log record has
\* its message, the text the message shows (none in the later messages)
\* and the locator.
enter_text(locator, text, visible) ==
    [called |-> TRUE, locator |-> locator, text |-> text,
     logs |-> <<[level |-> "debug", msg |-> "Entering text", text |-> DisplayText(locator, text),
                 locator |-> locator]>>
              \o (IF visible
                  THEN <<[level |-> "debug", msg |-> "Successfully entered text",
                          text |-> "", locator |-> locator]>>
                  ELSE <<[level |-> "error", msg |-> "Element not visible for text entry",
                          text |-> "", locator |-> locator]>>),
     keys |-> IF visible THEN text ELSE "",
     out |-> IF visible THEN "returned" ELSE "TimeoutException"]

\* Both runs: lines 209-213. A call logs and sends the same whatever was
\* called before it, so each run is one call.
EnterText(locator, text1, text2) ==
    /\ ~et[1].called
    /\ et' = [r \in {1, 2} |-> enter_text(locator, IF r = 1 THEN text1 ELSE text2, TRUE)]
    /\ UNCHANGED <<vars, cmVars, gd, calc, lgVars>>

\* Both runs, the element not visible within the timeout: lines 214-220
EnterTextTimesOut(locator, text1, text2) ==
    /\ ~et[1].called
    /\ et' = [r \in {1, 2} |-> enter_text(locator, IF r = 1 THEN text1 ELSE text2, FALSE)]
    /\ UNCHANGED <<vars, cmVars, gd, calc, lgVars>>

NextText ==
    \/ \E locator \in Locators, text1, text2 \in Texts : EnterText(locator, text1, text2)
    \/ \E locator \in Locators, text1, text2 \in Texts : EnterTextTimesOut(locator, text1, text2)

SpecText == Init /\ [][NextText]_<<vars, framework>>

\* ========================================================== setup_logger
\* src/framework/logger.py lines 14-69. logging.getLogger(name) is the one
\* logger of that name; last is the record of the latest setup_logger call
\* for it: its number, its arguments and whether it returned.
MaxSetups == 3       \* setup_logger calls in one run, the one at import included

Levels == {"INFO", "DEBUG"}

\* log_file: None, the empty string, or a path
NoLogFile == "None"
LogFiles == {NoLogFile, "", "logs/a.log", "logs/b.log"}

\* line 56: if log_file
Truthy(log_file) == log_file \notin {NoLogFile, ""}

Cleared_KeepsOld(handlers) == handlers

\* line 40: logger.handlers = []
Cleared(handlers) == <<>>

\* lines 49-53: the console handler, when asked for
WithConsole(handlers, console_output, level, k) ==
    IF console_output
    THEN Append(handlers, [kind |-> "console", file |-> "", level |-> level, call |-> k])
    ELSE handlers

\* lines 56-64: the file handler, when a log file is given
WithFile(handlers, log_file, level, k) ==
    IF Truthy(log_file)
    THEN Append(handlers, [kind |-> "file", file |-> log_file, level |-> level, call |-> k])
    ELSE handlers

\* setup_logger(name, level, log_file, console_output) returning the logger
SetupLogger(name, level, log_file, console_output) ==
    /\ setups < MaxSetups
    /\ setups' = setups + 1
    /\ loggers' = [loggers EXCEPT ![name] =
            [level |-> level,
             handlers |-> WithFile(WithConsole(Cleared(@.handlers), console_output,
                                               level, setups + 1),
                                   log_file, level, setups + 1),
             propagate |-> FALSE,
             last |-> [call |-> setups + 1, console_output |-> console_output,
                       log_file |-> log_file, returned |-> TRUE]]]
    /\ UNCHANGED <<vars, cmVars, gd, calc, et>>

\* The log directory cannot be made or the log file cannot be opened:
\* lines 59 or 61 raise, after lines 36-53 and before line 67.
SetupLoggerFileFails(name, level, log_file, console_output) ==
    /\ setups < MaxSetups
    /\ Truthy(log_file)
    /\ setups' = setups + 1
    /\ loggers' = [loggers EXCEPT ![name] =
            [level |-> level,
             handlers |-> WithConsole(Cleared(@.handlers), console_output, level, setups + 1),
             propagate |-> @.propagate,
             last |-> [call |-> setups + 1, console_output |-> console_output,
                       log_file |-> log_file, returned |-> FALSE]]]
    /\ UNCHANGED <<vars, cmVars, gd, calc, et>>

NextLogger ==
    \/ \E name \in LoggerNames, level \in Levels, log_file \in LogFiles,
          console_output \in BOOLEAN : SetupLogger(name, level, log_file, console_output)
    \/ \E name \in LoggerNames, level \in Levels, log_file \in LogFiles,
          console_output \in BOOLEAN :
            SetupLoggerFileFails(name, level, log_file, console_output)

SpecLogger == Init /\ [][NextLogger]_<<vars, framework>>
\* ================================================================ claims
Min(a, b) == IF a <= b THEN a ELSE b
Last(S) == IF S = {} THEN 0 ELSE CHOOSE i \in S : \A j \in S : j <= i

Calls == 1..Len(log)
CallsFor(S) == {i \in Calls : log[i].subj = S}

\* The history files whose name matches {S}_*.html, and those written by
\* captures for S.
Matching(S) == {f \in hist : GlobMatch(S, PathOf(f))}
FilesOf(S) == {f \in hist : f.name = S}

\* Call i returned normally and none of its file operations failed.
Succeeded(i) == log[i].out = "done" /\ log[i].failedAt = "none"

\* No capture is in progress.
Quiet == \A p \in Procs : pc[p] \in Returned

\* The run so far is k captures for S with retention N, one after the
\* other, each without an I/O error.
RunOf(S, N) ==
    /\ Quiet
    /\ \A i \in Calls : log[i].subj = S /\ log[i].keep = N /\ Succeeded(i)

Stamps == {log[i].ts : i \in Calls}

DistinctSeconds == \A i, j \in Calls : i # j => log[i].ts # log[j].ts
IncreasingMtimes == \A i, j \in Calls : i < j => log[i].mtime < log[j].mtime

\* C1 as stated: after k captures for S with retention N, starting from an
\* empty history, min(k, N) history files match {S}_*.html.
C1_CountIsMinOfCallsAndKeep ==
    \A S \in Subjects, N \in 0..MaxKeep :
        RunOf(S, N) => Cardinality(Matching(S)) = Min(Len(log), N)

\* C1 amended: after k error-free captures for S with retention N, starting
\* from an empty history, the number of history files matching {S}_*.html
\* is min(d, N), d being the number of distinct seconds the k captures fell
\* in: captures of the same second share one history file.
C1_CountIsMinOfSecondsAndKeep ==
    \A S \in Subjects, N \in 0..MaxKeep :
        RunOf(S, N) => Cardinality(Matching(S)) = Min(Cardinality(Stamps), N)

C1_ThreeCapturesKeepTwo ==
    /\ RunOf(Page, 2)
    /\ Len(log) = 3
    /\ Cardinality(Stamps) = 3
    /\ Cardinality(Matching(Page)) = 2

\* C2: the live file of S holds the content of the most recent capture for
\* S that wrote it, whatever retention the captures used and whatever was
\* pruned, and no capture for another page creates or changes it.
C2_LiveIsLastCapture ==
    \A S \in Subjects :
        LET k == Last(CallsFor(S))
        IN /\ k = 0 => live[S] = NoFile
           /\ (k # 0 /\ log[k].wroteLive) => live[S] = log[k].content

C2_LiveSurvivesOthersAndPruning ==
    /\ Quiet
    /\ Len(log) = 3
    /\ log[1].subj = Page_A /\ Succeeded(1)
    /\ log[2].subj = Page /\ log[2].keep = 0 /\ Succeeded(2) /\ log[2].deleted # {}
    /\ log[3].subj = Page /\ Succeeded(3)
    /\ live[Page_A] = 1
    /\ live[Page] = 3

\* C3: after a capture for S with retention N that returned without an I/O
\* error, at most N history files match {S}_*.html (so at most N are files
\* of S), however many there were before.
C3_AtMostKeepAfterCapture ==
    \A p \in Procs :
        (pc[p] = "done" /\ Succeeded(Cur(p)) /\ Cur(p) = Len(log))
            => Cardinality(Matching(log[Cur(p)].subj)) <= log[Cur(p)].keep

C3_PrunedFromLargerHistory ==
    /\ pc[Main] = "done"
    /\ Len(log) = 3
    /\ Succeeded(3)
    /\ log[3].keep = 1
    /\ Cardinality(log[3].listed) = 3
    /\ Cardinality(FilesOf(log[3].subj)) = 1

\* What call i kept of the files it listed.
Kept(i) == {f \in log[i].listed : PathOf(f) \notin log[i].deleted}
Dropped(i) == {f \in log[i].listed : PathOf(f) \in log[i].deleted}

\* C4: a pruning that ran without an I/O error kept min(N, listed) of the
\* files it listed (those matching {S}_*.html) and deleted the rest, and no
\* deleted file was modified later than a kept one: the modification time
\* decides, not the timestamp in the name.
C4_KeepsMostRecentlyModified ==
    \A i \in Calls :
        Succeeded(i) =>
            /\ Cardinality(Kept(i)) = Min(log[i].keep, Cardinality(log[i].listed))
            /\ \A a \in Kept(i), b \in Dropped(i) : a.mtime >= b.mtime
            /\ (i = Len(log)) =>
                  {PathOf(f) : f \in Matching(log[i].subj)} = {PathOf(f) : f \in Kept(i)}

C4_MtimeBeatsName ==
    \E i \in Calls :
        /\ Succeeded(i)
        /\ \E a \in Kept(i), b \in Dropped(i) : a.ts < b.ts /\ a.mtime > b.mtime

\* C5: a capture with retention 0 that returned without an I/O error leaves
\* no history file matching {S}_*.html, and the live file holds its content.
C5_KeepZeroLeavesNoHistory ==
    \A p \in Procs :
        (pc[p] = "done" /\ Succeeded(Cur(p)) /\ Cur(p) = Len(log) /\ log[Cur(p)].keep = 0)
            => /\ Matching(log[Cur(p)].subj) = {}
               /\ live[log[Cur(p)].subj] = log[Cur(p)].content

C5_KeepZeroAfterHistory ==
    /\ pc[Main] = "done"
    /\ Len(log) = 3
    /\ Succeeded(3)
    /\ log[3].keep = 0
    /\ Cardinality(log[3].deleted) = 3
    /\ live[log[3].subj] = 3

\* C6: a failure while the live file is written, the history file is
\* written, the history files are listed or one of them is deleted is
\* caught and logged, and the capture returns normally.
C6_FailuresAreSwallowed ==
    \A i \in Calls :
        log[i].failedAt \in {"write_live", "write_hist", "list", "unlink"}
            => log[i].out = "done" /\ log[i].logged \in {"error", "warning"}

C6_UnlinkFailedAndReturned ==
    \E i \in Calls : log[i].failedAt = "unlink" /\ log[i].out = "done"

\* C7 as stated: a failure to create the snapshot directory or its history
\* subdirectory is caught too, and the capture returns normally.
C7_DirectoryFailuresAreSwallowed ==
    \A i \in Calls :
        log[i].failedAt \in {"mkdir", "mkdir_hist"} => log[i].out = "done"

\* C8 as stated: after k captures for one page with retention N the history
\* files are those of the last min(k, N) captures, each with its content,
\* and the live file is the last capture's.
LastCapturesRemain(S, N) ==
    /\ {f.content : f \in Matching(S)} = (Len(log) - Min(Len(log), N) + 1)..Len(log)
    /\ Cardinality(Matching(S)) = Min(Len(log), N)
    /\ Len(log) > 0 => live[S] = Len(log)

C8_LastCapturesRemain ==
    \A S \in Subjects, N \in 0..MaxKeep :
        (RunOf(S, N) /\ touches = 0) => LastCapturesRemain(S, N)

\* C8 amended: the same, for k captures that fall in k different seconds
\* and whose history files carry increasing modification times.
C8_LastCapturesRemainIfApart ==
    \A S \in Subjects, N \in 0..MaxKeep :
        (RunOf(S, N) /\ touches = 0 /\ DistinctSeconds /\ IncreasingMtimes)
            => LastCapturesRemain(S, N)

C8_ThirdCapturePrunesFirst ==
    /\ RunOf(Page, 2) /\ touches = 0 /\ DistinctSeconds /\ IncreasingMtimes
    /\ Len(log) = 3
    /\ {f.content : f \in hist} = {2, 3}
    /\ live[Page] = 3

\* C9 as stated: a capture deletes history files of its own page only.
C9_DeletesOwnHistoryOnly ==
    \A i \in Calls : \A path \in log[i].deleted : path.name = log[i].subj

\* C10 as stated, in its second half: an interrupted capture can have its
\* history entry written while the live file is not yet updated. The steps
\* of a capture come in one fixed order, so this needs the history write to
\* come due while the live file is still unwritten.
C10_HistoryWriteBeforeLive ==
    \A p \in Procs : pc[p] = "write_hist" => ~log[Cur(p)].wroteLive

\* C10 amended: an interrupted capture can leave the live file updated and
\* its history entry missing; the reverse cannot happen: whenever the
\* history entry of a capture exists, that capture has written the live
\* file before, and until the next capture for the page the live file
\* holds its content.
C10_LiveIsWrittenFirst ==
    \A i \in Calls :
        (log[i].wroteHist \/ \E f \in hist : f.content = log[i].content)
            => /\ log[i].wroteLive
               /\ i = Last(CallsFor(log[i].subj)) => live[log[i].subj] = log[i].content

C10_LiveUpdatedHistoryMissing ==
    \E i \in Calls :
        /\ log[i].out = "crashed"
        /\ live[log[i].subj] = log[i].content
        /\ ~ \E f \in hist : f.content = log[i].content

\* The history files at one path.
AtPath(path) == {f \in hist : PathOf(f) = path}

\* C11: two captures for the same page whose timestamps fall in the same
\* second write the same history path, and the second write replaces the
\* first without an error: the two contribute one file, the first's content
\* is gone, and until the second capture prunes, the file holds the second's
\* content.
C11_SameSecondOverwrites ==
    \A i, j \in Calls :
        (/\ i < j
         /\ log[i].subj = log[j].subj /\ log[i].ts = log[j].ts
         /\ log[i].wroteHist /\ log[j].wroteHist)
            => LET path == HistoryPath(log[j].subj, log[j].ts)
               IN /\ log[j].failedAt # "write_hist"
                  /\ Cardinality(AtPath(path)) <= 1
                  /\ \A f \in hist : f.content # log[i].content
                  /\ (j = Len(log) /\ log[j].deleted = {})
                        => {f.content : f \in AtPath(path)} = {log[j].content}

C11_TwoCapturesOneFile ==
    /\ RunOf(Page, 2)
    /\ Len(log) = 2
    /\ log[1].ts = log[2].ts
    /\ Cardinality(hist) = 1
    /\ {f.content : f \in hist} = {2}

\* The run so far is captures for S, all with retention N, by callers whose
\* steps interleave, and all of them have returned.
AllReturned(S, N) ==
    /\ Quiet
    /\ Len(log) > 0
    /\ \A i \in Calls : log[i].subj = S /\ log[i].keep = N /\ log[i].out = "done"

\* A pruning that was cut short because a file it had listed was gone.
CutShort(i) == log[i].failedAt \in {"stat", "unlink"}

\* C12: with concurrent captures for one page, all with retention N, there
\* is an interleaving after which both have finished and more than N history
\* files remain (the state C12_BothFinishedTooManyFiles); and more than N
\* remain only through that race: some pruning was cut short by a file that
\* the other caller had deleted under it.
C12_TooManyOnlyByRace ==
    \A N \in 0..MaxKeep :
        (AllReturned(Page, N) /\ Cardinality(FilesOf(Page)) > N)
            => \E i \in Calls : CutShort(i)

C12_BothFinishedTooManyFiles ==
    /\ Len(log) = 2
    /\ Cur("p1") = 1 /\ Cur("p2") = 2
    /\ pc["p1"] = "done" /\ pc["p2"] = "done"
    /\ log[1].subj = log[2].subj
    /\ log[1].keep = log[2].keep
    /\ log[2].listed # {}
    /\ Cardinality(FilesOf(log[1].subj)) > log[1].keep

\* C13: with concurrent captures for one page and retention N >= 1, there
\* is an interleaving in which the pruning of one call deletes the history
\* file another call has just written, and that call completes without an
\* error and has no history entry (the state C13_CompletedWithoutEntry).
\* A written entry is lost in these two ways only: a pruning deleted its
\* path, or a capture of the same second wrote over it.
C13_EntryLostByPruningOrOverwrite ==
    \A i \in Calls :
        (log[i].wroteHist /\ ~ \E f \in hist : f.content = log[i].content)
            => LET path == HistoryPath(log[i].subj, log[i].ts)
               IN \/ \E j \in Calls : path \in log[j].deleted
                  \/ \E j \in Calls \ {i} :
                        log[j].wroteHist /\ HistoryPath(log[j].subj, log[j].ts) = path

C13_CompletedWithoutEntry ==
    /\ Len(log) = 2
    /\ Cur("p1") = 1 /\ Cur("p2") = 2
    /\ Succeeded(1) /\ Succeeded(2)
    /\ log[1].keep >= 1 /\ log[1].keep = log[2].keep
    /\ log[1].ts # log[2].ts
    /\ log[2].wroteHist
    /\ HistoryPath(log[2].subj, log[2].ts) \in log[1].deleted
    /\ ~ \E f \in hist : f.content = log[2].content

\* C14 as stated: the snapshot directory and its history subdirectory both
\* exist before a capture writes a file, and after every capture that
\* returns, whatever its retention and also when one of its file writes
\* failed.
C14_BothDirectoriesExist ==
    \A p \in Procs :
        pc[p] \in {"write_live", "write_hist", "done"} => snapDir /\ histDir

\* C18: add(a, b) is the sum a + b for all integers a and b, positive,
\* negative or zero: the result exceeds a exactly by b, add(a, 0) = a, and
\* add(a, b) = add(b, a).
C18_AddIsTheSum ==
    calc.called =>
        /\ calc.result - calc.a = calc.b
        /\ calc.result = calc.a + calc.b
        /\ calc.b = 0 => calc.result = calc.a
        /\ add(calc.b, calc.a) = calc.result

C18_NegativePlusPositive ==
    /\ calc.called
    /\ calc.a = 0 - MaxOperand /\ calc.b = MaxOperand - 1
    /\ calc.result = -1

\* What the path means, said without the loop of get: keys lead through
\* value when every key but the last finds a dict that has the next key.
RECURSIVE Resolves(_, _)
Resolves(value, keys) ==
    \/ keys = <<>>
    \/ /\ value.type = "dict"
       /\ Head(keys) \in DOMAIN value.items
       /\ Resolves(value.items[Head(keys)], Tail(keys))

RECURSIVE At(_, _)
At(value, keys) == IF keys = <<>> THEN value ELSE At(value.items[Head(keys)], Tail(keys))

RECURSIVE Joined(_, _)
Joined(pieces, sep) ==
    IF Len(pieces) = 1 THEN pieces[1]
    ELSE pieces[1] \o <<sep>> \o Joined(Tail(pieces), sep)

\* C15: get(key_path, default) never raises. Its keys are the pieces of
\* key_path between the dots; when they lead through the loaded
\* configuration it returns the value at their end, and otherwise (a key is
\* missing, a value on the way is not a mapping, nothing is loaded) it
\* returns default.
C15_GetWalksOrDefaults ==
    got.called =>
        LET keys == split(got.key_path, ".")
        IN /\ Joined(keys, ".") = got.key_path
           /\ \A i \in 1..Len(keys) : \A j \in 1..Len(keys[i]) : keys[i][j] # "."
           /\ got.raised = "none"
           /\ got.value = IF Resolves(got.config, keys) THEN At(got.config, keys)
                          ELSE got.default

C15_DefaultBehindAScalar ==
    /\ got.called
    /\ got.key_path = <<"a", ".", "b">>
    /\ got.config.type = "dict"
    /\ <<"a">> \in DOMAIN got.config.items
    /\ got.config.items[<<"a">>].type = "str"
    /\ got.default = Value("default")
    /\ got.value = Value("default")

\* C16 as stated: every construction returns the same instance, and once a
\* construction has returned, no later construction reads config.yaml.
C16_LoadedByFirstConstructionOnly ==
    \A j, k \in 1..Len(cmLog) :
        (j < k /\ cmLog[j].returned = "cm")
            => cmLog[k].returned = "cm" /\ ~cmLog[k].read

\* The last message a call logged.
LastLogged(logs) == logs[Len(logs)]

\* C17: get_driver compares the configured browser name without regard to
\* case: chrome in any spelling (or no name configured) gives a Chrome
\* driver, firefox in any spelling a Firefox driver; every other name
\* raises ValueError and no driver is created; and when creating the driver
\* fails, the error is logged and the exception reaches the caller.
C17_SelectsByNameIgnoringCase ==
    gd.called =>
        /\ (gd.name \in CaseVariants(chrome) \cup {NotConfigured} /\ gd.creation = "ok")
              => gd.out = "returned" /\ gd.driver = "Chrome" /\ gd.created = "Chrome"
        /\ (gd.name \in CaseVariants(firefox) /\ gd.creation = "ok")
              => gd.out = "returned" /\ gd.driver = "Firefox" /\ gd.created = "Firefox"
        /\ gd.name \in OtherNames
              => gd.out = "ValueError" /\ gd.driver = "none" /\ gd.created = "none"
        /\ (gd.name \notin OtherNames /\ gd.creation # "ok")
              => gd.out = "WebDriverException" /\ gd.driver = "none"
        /\ gd.out # "returned" => LastLogged(gd.logs).level = "error"

C17_MixedCaseFirefox ==
    /\ gd.called
    /\ gd.name = <<"F", "i", "r", "e", "F", "o", "x">>
    /\ gd.out = "returned"
    /\ gd.driver = "Firefox"

\* C19: for a locator string that holds 'password', 'token' or 'secret' in
\* any letter case, enter_text logs '****' in place of the text: the log
\* holds the mask and nothing of the text, two calls that differ in the
\* text alone log the same, and the text itself is what the element gets.
C19_SensitiveTextIsMasked ==
    (et[1].called /\ et[1].locator.value \in SensitiveLocators) =>
        /\ et[1].logs = et[2].logs
        /\ \A r \in {1, 2} :
              /\ et[r].logs[1].text = Mask
              /\ \A i \in 1..Len(et[r].logs) : et[r].logs[i].text # et[r].text
        /\ \A r \in {1, 2} : et[r].out = "returned" => et[r].keys = et[r].text

C19_TwoPasswordsOneLog ==
    /\ et[1].called
    /\ et[1].locator.value = <<"u", "s", "e", "r", "-", "P", "a", "s", "s", "W", "o", "r", "d">>
    /\ et[1].text = "hunter2" /\ et[2].text = "letmein"
    /\ et[1].keys = "hunter2" /\ et[2].keys = "letmein"
    /\ et[1].logs = et[2].logs

\* The handlers of one kind a logger holds.
Handlers(n, kind) ==
    {i \in 1..Len(loggers[n].handlers) : loggers[n].handlers[i].kind = kind}

\* After setup_logger calls for the name n, the logger holds the handlers
\* of the latest call only, at most one for the console and one for a file.
OnlyLatestHandlers(n) ==
    /\ \A i \in 1..Len(loggers[n].handlers) :
            loggers[n].handlers[i].call = loggers[n].last.call
    /\ Cardinality(Handlers(n, "console")) <= 1
    /\ Cardinality(Handlers(n, "file")) <= 1

\* C20 as stated: after any sequence of setup_logger calls for a name, the
\* logger holds only the handlers of the latest call, at most one console
\* and one file handler, and propagate is False.
C20_LatestHandlersNoPropagate ==
    \A n \in LoggerNames :
        loggers[n].last.call > 0 => OnlyLatestHandlers(n) /\ ~loggers[n].propagate

\* C20 amended: after any sequence of setup_logger calls for a name, the
\* logger holds only the handlers of the latest call, at most one console
\* and one file handler; and when the latest call has returned, these are
\* the handlers it was asked for and propagate is False. (A call whose log
\* file cannot be opened raises with its console handler installed and
\* propagate as it was.)
C20_LatestHandlersOnly ==
    \A n \in LoggerNames :
        loggers[n].last.call > 0 =>
            /\ OnlyLatestHandlers(n)
            /\ loggers[n].last.returned =>
                  /\ ~loggers[n].propagate
                  /\ Handlers(n, "console") # {} <=> loggers[n].last.console_output
                  /\ Handlers(n, "file") # {} <=> Truthy(loggers[n].last.log_file)

C20_ThirdSetupReplacesHandlers ==
    /\ loggers["tests"].last.call = 0
    /\ loggers["framework"].last.call = 3
    /\ loggers["framework"].last.returned
    /\ Len(loggers["framework"].handlers) = 2
    /\ ~loggers["framework"].propagate

\* The history file of call i, as the call wrote it.
OwnEntry(i) ==
    {f \in hist : PathOf(f) = HistoryPath(log[i].subj, log[i].ts)
                    /\ f.content = log[i].content}

\* C21: the steps of one capture come in one order and each needs the one
\* before it to have succeeded. A capture that has come to the history
\* write has written the live file; a capture that has come to pruning has
\* written its history file; a capture whose page-source read or live write
\* failed has written no history file, listed none and deleted none; a
\* capture whose history write failed has listed none and deleted none.
C21_StepsInOrder ==
    /\ \A p \in Procs :
          /\ pc[p] \in {"mkdir_hist", "write_hist", "list", "unlink"}
                => log[Cur(p)].wroteLive
          /\ pc[p] \in {"read", "write_live", "mkdir_hist", "write_hist"}
                => ~log[Cur(p)].wroteHist /\ log[Cur(p)].deleted = {}
          /\ pc[p] \in {"list", "unlink"} => log[Cur(p)].wroteHist
          /\ pc[p] = "list" => OwnEntry(Cur(p)) # {}
    /\ \A i \in Calls :
          /\ log[i].wroteHist => log[i].wroteLive
          /\ (log[i].listed # {} \/ log[i].deleted # {}) => log[i].wroteHist
          /\ log[i].failedAt \in {"read", "write_live"}
                => /\ ~log[i].wroteHist
                   /\ OwnEntry(i) = {}
                   /\ log[i].listed = {} /\ log[i].deleted = {}
          /\ log[i].failedAt = "read" => ~log[i].wroteLive
          /\ log[i].failedAt = "write_hist"
                => /\ log[i].wroteLive /\ ~log[i].wroteHist
                   /\ log[i].listed = {} /\ log[i].deleted = {}

C21_FailedLiveWriteLeavesHistory ==
    /\ Quiet
    /\ Len(log) = 3
    /\ Succeeded(1) /\ Succeeded(2)
    /\ log[3].failedAt = "write_live" /\ log[3].out = "done"
    /\ \A i \in Calls : log[i].subj = Page
    /\ log[3].keep = 0
    /\ {f.content : f \in hist} = {1, 2}

\* Call i is the capture that has just returned, without an I/O error and
\* with a retention of at least 1.
JustReturned(i) ==
    /\ i = Len(log)
    /\ \E p \in Procs : pc[p] = "done" /\ Cur(p) = i
    /\ Succeeded(i)
    /\ log[i].keep >= 1

\* The files call i found beside its own when it listed the history.
Others(i) == {f \in log[i].listed : PathOf(f) # HistoryPath(log[i].subj, log[i].ts)}

\* C22 as stated: with one caller, whatever the history directory held
\* before, the history file written by a capture with retention N >= 1 that
\* completes without an error exists when the capture returns.
C22_OwnEntrySurvives ==
    \A i \in Calls : JustReturned(i) => OwnEntry(i) # {}

\* C22 amended: the same, when every other file the pruning listed was
\* modified before the capture wrote its own file. A listed file modified at
\* the same time or later sorts before the new file or beside it.
C22_OwnEntrySurvivesOlderHistory ==
    \A i \in Calls :
        (JustReturned(i) /\ \A f \in Others(i) : f.mtime < log[i].mtime)
            => OwnEntry(i) # {}

C22_PrunedOlderKeptOwn ==
    /\ Len(log) = 3
    /\ JustReturned(3)
    /\ log[3].keep = 1
    /\ Cardinality(Others(3)) = 2
    /\ \A f \in Others(3) : f.mtime < log[3].mtime
    /\ Cardinality(log[3].deleted) = 2
    /\ {f.content : f \in hist} = {3}

\* Call i is the capture that has just ended, and a file operation of its
\* pruning failed: the listing (glob, stat) or an unlink.
FailedInPruning(i) ==
    /\ i = Len(log)
    /\ \E p \in Procs : pc[p] \in Returned /\ Cur(p) = i
    /\ log[i].failedAt \in {"list", "unlink"}

PathsOf(F) == {PathOf(f) : f \in F}

\* C23 as stated: a failure inside pruning is caught there, the capture
\* returns normally, and the live file and the history file written by this
\* capture both remain with the captured content.
C23_PruningFailureKeepsBoth ==
    \A i \in Calls :
        FailedInPruning(i) =>
            /\ log[i].out = "done" /\ log[i].logged = "warning"
            /\ live[log[i].subj] = log[i].content
            /\ OwnEntry(i) # {}

\* C23 amended: a failure inside pruning is caught there and logged as a
\* warning, and the capture returns normally. Pruning stops at the failure:
\* what it had deleted before stays deleted, every other listed file
\* remains, at least one of them beyond the retention count. The live file
\* holds the captured content. The history file of this capture remains
\* unless pruning had deleted it before the failure, and it had not when
\* the retention is at least 1 and every other listed file is older.
C23_PruningFailureKeepsUndeleted ==
    \A i \in Calls :
        FailedInPruning(i) =>
            /\ log[i].out = "done" /\ log[i].logged = "warning"
            /\ log[i].wroteLive /\ log[i].wroteHist
            /\ live[log[i].subj] = log[i].content
            /\ log[i].failedAt = "list" => log[i].deleted = {}
            /\ log[i].failedAt = "unlink" =>
                  /\ PathsOf(Matching(log[i].subj)) = PathsOf(log[i].listed) \ log[i].deleted
                  /\ Cardinality(log[i].listed) - Cardinality(log[i].deleted) > log[i].keep
            /\ OwnEntry(i) # {} <=> HistoryPath(log[i].subj, log[i].ts) \notin log[i].deleted
            /\ (log[i].keep >= 1 /\ \A f \in Others(i) : f.mtime < log[i].mtime)
                  => OwnEntry(i) # {}

C23_SecondUnlinkFailed ==
    /\ Len(log) = 3
    /\ FailedInPruning(3)
    /\ log[3].failedAt = "unlink"
    /\ log[3].keep = 1
    /\ Cardinality(log[3].listed) = 3
    /\ Cardinality(log[3].deleted) = 1
    /\ Cardinality(Matching(log[3].subj)) = 2
    /\ OwnEntry(3) # {}
    /\ live[log[3].subj] = 3
====
